---- MODULE Spec2Model ----
(***************************************************************************)
(* FIFA tournament manager (tournament_app.py): the snapshot kept in the   *)
(* Google Sheet, the script run that loads and renders it, the standings   *)
(* fold, the used-team filter of the score form and the save handler.      *)
(***************************************************************************)
EXTENDS Integers, Sequences, FiniteSets, TLC

VARIABLES
    localJson,  \* content of the local file 'tournament_data.json' (or missing)
    sheet,      \* the two worksheets "Matches" and "Players"
    data,       \* the snapshot the current script run loaded (or None)
    last        \* the save the current script run performed (or none)

vars == <<localJson, sheet, data, last>>

---------------------------------------------------------------------------
(* Bounds of the model *)

MaxMatches == 2     \* matches in a snapshot
MaxPlayers == 2     \* rows of the "Players" worksheet
MaxScore == 1       \* largest score typed into a number_input
RosterSize == 2     \* entries of TOP_TEAMS

Names == {"A", "B"}

---------------------------------------------------------------------------
(* Values *)

\* Python None, for a score or a team that is not set.
None == -1

\* pandas NaN: what a None cell is in a DataFrame / worksheet.
NaN == -2

\* The roster, sorted; a team name is modelled by its rank in sorted order.
TOP_TEAMS == [i \in 1..RosterSize |-> i]

\* A team name that is not an entry of TOP_TEAMS.
OffRoster == RosterSize + 1

Scores == 0..MaxScore
ScoreOpt == Scores \cup {None}
RosterSet == {TOP_TEAMS[i] : i \in 1..RosterSize}
TeamOpt == RosterSet \cup {OffRoster, None}

SeqsUpTo(S, n) == UNION {[1..k -> S] : k \in 0..n}

\* A match record; week and match_id follow the position in the fixture list.
Match(i, p1, p2, s1, s2, t1, t2) ==
    [week |-> i, match_id |-> i, p1 |-> p1, p2 |-> p2,
     score1 |-> s1, score2 |-> s2, team1 |-> t1, team2 |-> t2]

\* data is None
DataNone == [isNone |-> TRUE, matches |-> <<>>, players |-> <<>>]

Snapshot(ms, ps) == [isNone |-> FALSE, matches |-> ms, players |-> ps]

FileMissing == [exists |-> FALSE, matches |-> <<>>, players |-> <<>>]

JsonFile(ms, ps) == [exists |-> TRUE, matches |-> ms, players |-> ps]

EmptySheet == [Matches |-> <<>>, Players |-> <<>>]

NoEdit == [saved |-> FALSE, match_id |-> 0, score1 |-> None, score2 |-> None,
           team1 |-> None, team2 |-> None]

---------------------------------------------------------------------------
(* load_data / save_data *)

ToCell(v) == IF v = None THEN NaN ELSE v

FromCell(v) == IF v = NaN THEN None ELSE v

RowOf(m) == [m EXCEPT !.score1 = ToCell(m.score1), !.score2 = ToCell(m.score2),
                      !.team1 = ToCell(m.team1), !.team2 = ToCell(m.team2)]

CleanRow(r) == [r EXCEPT !.score1 = FromCell(r.score1), !.score2 = FromCell(r.score2),
                         !.team1 = FromCell(r.team1), !.team2 = FromCell(r.team2)]

\* save_data: both worksheets are overwritten with the whole snapshot.
save_data(d) ==
    [Matches |-> [i \in 1..Len(d.matches) |-> RowOf(d.matches[i])],
     Players |-> d.players]

\* load_data: None for an empty worksheet, else the rows with NaN cleaned up.
load_data(sh) ==
    IF Len(sh.Matches) = 0 \/ Len(sh.Players) = 0
    THEN DataNone
    ELSE Snapshot([i \in 1..Len(sh.Matches) |-> CleanRow(sh.Matches[i])], sh.Players)

---------------------------------------------------------------------------
(* get_used_teams *)

\* Variant: only the home side is looked at.
UsedStep_HomeOnly(used, m, player_name) ==
    IF m.p1 = player_name /\ m.team1 # None THEN used \cup {m.team1} ELSE used

UsedStep(used, m, player_name) ==
    LET u1 == IF m.p1 = player_name /\ m.team1 # None THEN used \cup {m.team1} ELSE used
    IN  IF m.p2 = player_name /\ m.team2 # None THEN u1 \cup {m.team2} ELSE u1

RECURSIVE UsedLoop(_, _, _, _)
UsedLoop(used, ms, k, player_name) ==
    IF k > Len(ms) THEN used
    ELSE UsedLoop(UsedStep(used, ms[k], player_name), ms, k + 1, player_name)

get_used_teams(d, player_name) == UsedLoop({}, d.matches, 1, player_name)

---------------------------------------------------------------------------
(* calculate_leaderboard *)

ZeroRow(p) == [Player |-> p, GP |-> 0, W |-> 0, D |-> 0, L |-> 0,
               GF |-> 0, GA |-> 0, GD |-> 0, Pts |-> 0]

InStats(stats, p) == \E i \in 1..Len(stats) : stats[i].Player = p

\* stats = {p: {...} for p in players}: one entry per distinct name, in the
\* order of first appearance.
RECURSIVE InitLoop(_, _, _)
InitLoop(stats, players, k) ==
    IF k > Len(players) THEN stats
    ELSE InitLoop(IF InStats(stats, players[k]) THEN stats
                  ELSE Append(stats, ZeroRow(players[k])),
                  players, k + 1)

InitStats(players) == InitLoop(<<>>, players, 1)

\* Variant: goals for and against exchanged.
AddPlayed_GoalsSwapped(stats, p, own, opp) ==
    [i \in 1..Len(stats) |->
        IF stats[i].Player = p
        THEN [stats[i] EXCEPT !.GP = @ + 1, !.GF = @ + opp, !.GA = @ + own,
                              !.GD = @ + (own - opp)]
        ELSE stats[i]]

\* Variant: the opponent's goals are added to GF instead of GA.
AddPlayed_AgainstIntoFor(stats, p, own, opp) ==
    [i \in 1..Len(stats) |->
        IF stats[i].Player = p
        THEN [stats[i] EXCEPT !.GP = @ + 1, !.GF = @ + own + opp,
                              !.GD = @ + (own - opp)]
        ELSE stats[i]]

\* "if p in stats: stats[p][...] += ..." for the appearance counters.
AddPlayed(stats, p, own, opp) ==
    [i \in 1..Len(stats) |->
        IF stats[i].Player = p
        THEN [stats[i] EXCEPT !.GP = @ + 1, !.GF = @ + own, !.GA = @ + opp,
                              !.GD = @ + (own - opp)]
        ELSE stats[i]]

\* Variant: a win is worth two points.
AddWin_TwoPoints(stats, p) ==
    [i \in 1..Len(stats) |->
        IF stats[i].Player = p
        THEN [stats[i] EXCEPT !.W = @ + 1, !.Pts = @ + 2] ELSE stats[i]]

AddWin(stats, p) ==
    [i \in 1..Len(stats) |->
        IF stats[i].Player = p
        THEN [stats[i] EXCEPT !.W = @ + 1, !.Pts = @ + 3] ELSE stats[i]]

AddLoss(stats, p) ==
    [i \in 1..Len(stats) |->
        IF stats[i].Player = p THEN [stats[i] EXCEPT !.L = @ + 1] ELSE stats[i]]

AddDraw(stats, p) ==
    [i \in 1..Len(stats) |->
        IF stats[i].Player = p
        THEN [stats[i] EXCEPT !.D = @ + 1, !.Pts = @ + 1] ELSE stats[i]]

\* Variant: only score1 is tested, as the week's "completed" icon does.
IsSkipped_FirstScoreOnly(m) == m.score1 = None

\* "if m.get('score1') is None or m.get('score2') is None: continue"
IsSkipped(m) == m.score1 = None \/ m.score2 = None

\* Variant: a match with a player outside the table is left out altogether.
StatsStep_SkipUnlisted(stats, m) ==
    IF IsSkipped(m) \/ ~InStats(stats, m.p1) \/ ~InStats(stats, m.p2) THEN stats
    ELSE LET s1 == m.score1
             s2 == m.score2
             a  == AddPlayed(stats, m.p1, s1, s2)
             b  == AddPlayed(a, m.p2, s2, s1)
         IN  IF s1 > s2 THEN AddLoss(AddWin(b, m.p1), m.p2)
             ELSE IF s2 > s1 THEN AddLoss(AddWin(b, m.p2), m.p1)
             ELSE AddDraw(AddDraw(b, m.p1), m.p2)

\* The body of "for m in matches".
StatsStep(stats, m) ==
    IF IsSkipped(m) THEN stats
    ELSE LET s1 == m.score1
             s2 == m.score2
             a  == AddPlayed(stats, m.p1, s1, s2)
             b  == AddPlayed(a, m.p2, s2, s1)
         IN  IF s1 > s2 THEN AddLoss(AddWin(b, m.p1), m.p2)
             ELSE IF s2 > s1 THEN AddLoss(AddWin(b, m.p2), m.p1)
             ELSE AddDraw(AddDraw(b, m.p1), m.p2)

RECURSIVE StatsLoop(_, _, _)
StatsLoop(stats, ms, k) ==
    IF k > Len(ms) THEN stats ELSE StatsLoop(StatsStep(stats, ms[k]), ms, k + 1)

\* Descending lexicographic order on (Pts, GD, GF): a is not below b.
KeyGE(a, b) ==
    \/ a.Pts > b.Pts
    \/ a.Pts = b.Pts /\ a.GD > b.GD
    \/ a.Pts = b.Pts /\ a.GD = b.GD /\ a.GF >= b.GF

\* Variant: a row enters before the rows with an equal key (ties reversed).
SortInsert_BeforeEquals(sorted, r) ==
    LET n == Cardinality({i \in 1..Len(sorted) : KeyGE(sorted[i], r) /\ ~KeyGE(r, sorted[i])})
    IN  SubSeq(sorted, 1, n) \o <<r>> \o SubSeq(sorted, n + 1, Len(sorted))

\* A row enters the sorted frame after every row that is not below it, so
\* rows with equal keys keep their order (pandas sorts several columns with
\* a stable lexsort).
SortInsert(sorted, r) ==
    LET n == Cardinality({i \in 1..Len(sorted) : KeyGE(sorted[i], r)})
    IN  SubSeq(sorted, 1, n) \o <<r>> \o SubSeq(sorted, n + 1, Len(sorted))

RECURSIVE SortLoop(_, _, _)
SortLoop(sorted, rows, k) ==
    IF k > Len(rows) THEN sorted ELSE SortLoop(SortInsert(sorted, rows[k]), rows, k + 1)

\* df.sort_values(by=['Pts', 'GD', 'GF'], ascending=False)
sort_values(rows) == SortLoop(<<>>, rows, 1)

\* The returned frame; the 1-based index of a row is its rank.
calculate_leaderboard(d) ==
    sort_values(StatsLoop(InitStats(d.players), d.matches, 1))

---------------------------------------------------------------------------
(* Tab 2: the score form of one match *)

RemoveCurrent(used, current) == IF current \in used THEN used \ {current} ELSE used

used_p1(d, match) == RemoveCurrent(get_used_teams(d, match.p1), match.team1)

used_p2(d, match) == RemoveCurrent(get_used_teams(d, match.p2), match.team2)

\* sorted([t for t in TOP_TEAMS if t not in used]); TOP_TEAMS is sorted, so
\* the filtered list already is.
Options(used) == SelectSeq(TOP_TEAMS, LAMBDA t : t \notin used)

opts_p1(d, match) == Options(used_p1(d, match))

opts_p2(d, match) == Options(used_p2(d, match))

InSeq(s, x) == \E i \in 1..Len(s) : s[i] = x

\* opts.index(current) if current in opts else 0 (positions from 1 here).
DefaultIndex(opts, current) ==
    IF InSeq(opts, current)
    THEN CHOOSE i \in 1..Len(opts) : opts[i] = current /\ \A j \in 1..(i - 1) : opts[j] # current
    ELSE 1

\* What st.selectbox shows before the user touches it.
Preselected(opts, current) ==
    IF Len(opts) = 0 THEN None ELSE opts[DefaultIndex(opts, current)]

\* What st.selectbox can return: any option, None when there is none.
Selectable(opts) == IF Len(opts) = 0 THEN {None} ELSE {opts[i] : i \in 1..Len(opts)}

\* Rendering a match raises TypeError at "s1 > s2" when only score1 is set.
RenderRaises(m) == m.score1 # None /\ m.score2 = None

\* The save button of match i is on the page: the rows are drawn week by
\* week, and an exception ends the script run.
ButtonShown(d, i) ==
    \A j \in 1..Len(d.matches) :
        (d.matches[j].week < d.matches[i].week
            \/ (d.matches[j].week = d.matches[i].week /\ j <= i))
        => ~RenderRaises(d.matches[j])

\* data["matches"].index(match): the first record equal to match.
MatchIndex(ms, match) ==
    CHOOSE i \in 1..Len(ms) : ms[i] = match /\ \A j \in 1..(i - 1) : ms[j] # match

\* Variant: the home team is written to both team fields.
ApplyEdit_HomeTeamTwice(d, idx, new_s1, new_s2, new_t1, new_t2) ==
    [d EXCEPT !.matches[idx].score1 = new_s1, !.matches[idx].score2 = new_s2,
              !.matches[idx].team1 = new_t1, !.matches[idx].team2 = new_t1]

\* The four assignments of the save handler.
ApplyEdit(d, idx, new_s1, new_s2, new_t1, new_t2) ==
    [d EXCEPT !.matches[idx].score1 = new_s1, !.matches[idx].score2 = new_s2,
              !.matches[idx].team1 = new_t1, !.matches[idx].team2 = new_t2]

---------------------------------------------------------------------------
(* Script runs *)

\* "Initialize Database from Local JSON", file present.
InitializeDatabase ==
    /\ data.isNone
    /\ localJson.exists
    /\ sheet' = save_data(localJson)
    /\ data' = load_data(sheet')
    /\ last' = NoEdit
    /\ UNCHANGED localJson

\* "Initialize Database from Local JSON", file missing: st.error only.
InitializeNotFound ==
    /\ data.isNone
    /\ ~localJson.exists
    /\ UNCHANGED vars

\* "Refresh Data": cache cleared, script rerun.
Refresh ==
    /\ ~data.isNone
    /\ data' = load_data(sheet)
    /\ last' = NoEdit
    /\ UNCHANGED <<localJson, sheet>>

\* The save button of match i, pressed with the widget values of its row.
Save(i, new_s1, new_s2, new_t1, new_t2) ==
    LET match == data.matches[i]
        idx   == MatchIndex(data.matches, match)
        upd   == ApplyEdit(data, idx, new_s1, new_s2, new_t1, new_t2)
    IN  /\ sheet' = save_data(upd)
        /\ data' = load_data(sheet')
        /\ last' = [saved |-> TRUE, match_id |-> match.match_id, score1 |-> new_s1,
                    score2 |-> new_s2, team1 |-> new_t1, team2 |-> new_t2]
        /\ UNCHANGED localJson

\* Any button on the page, with any values its number inputs and select
\* boxes can hold.
SaveAny ==
    /\ ~data.isNone
    /\ \E i \in 1..Len(data.matches) :
          /\ ButtonShown(data, i)
          /\ \E new_t1 \in Selectable(opts_p1(data, data.matches[i])) :
                \E new_t2 \in Selectable(opts_p2(data, data.matches[i])) :
                    \E new_s1 \in Scores, new_s2 \in Scores :
                        Save(i, new_s1, new_s2, new_t1, new_t2)

Next == InitializeDatabase \/ InitializeNotFound \/ Refresh \/ SaveAny

---------------------------------------------------------------------------
(* Starting states: what the sheet and the local file hold at the first run *)

\* The first fixture of INITIAL_MATCHES and its two players.
BootFile == JsonFile(<<Match(1, "A", "B", None, None, None, None)>>, <<"A", "B">>)

\* A fresh sheet; the local file may or may not be there.
FreshStart ==
    /\ sheet = EmptySheet
    /\ localJson \in {FileMissing, BootFile}

\* A sheet that already holds the snapshot of matches ms and players ps.
FilledStart(ms, ps) ==
    /\ sheet = save_data(Snapshot(ms, ps))
    /\ localJson = FileMissing

\* The first script run has loaded the sheet.
FirstRun ==
    /\ data = load_data(sheet)
    /\ last = NoEdit

\* Fixture list with the players and scores of f and no team chosen yet.
ScoreFixtures(f) ==
    [i \in DOMAIN f |-> Match(i, f[i][1], f[i][2], f[i][3], f[i][4], None, None)]

\* Unplayed fixture list with the players and teams of f.
TeamFixtures(f) ==
    [i \in DOMAIN f |-> Match(i, f[i][1], f[i][2], None, None, f[i][3], f[i][4])]

\* No player holds a team twice and nobody plays himself.
UniqueFixtures(ms) ==
    /\ \A i \in 1..Len(ms) : ms[i].p1 # ms[i].p2
    /\ \A i, j \in 1..Len(ms) : i # j =>
          /\ ms[i].p1 = ms[j].p1 /\ ms[i].team1 # None => ms[i].team1 # ms[j].team1
          /\ ms[i].p2 = ms[j].p2 /\ ms[i].team2 # None => ms[i].team2 # ms[j].team2
          /\ ms[i].p1 = ms[j].p2 /\ ms[i].team1 # None => ms[i].team1 # ms[j].team2

PlayerLists == SeqsUpTo(Names, MaxPlayers) \ {<<>>}

\* Any scores, any player list, no teams yet.
InitStandings ==
    /\ \/ FreshStart
       \/ \E k \in 1..MaxMatches :
            \E f \in [1..k -> Names \X Names \X ScoreOpt \X ScoreOpt] :
                \E ps \in PlayerLists : FilledStart(ScoreFixtures(f), ps)
    /\ FirstRun

SpecStandings == InitStandings /\ [][Next]_vars

\* Any teams, nothing played yet.
InitTeams ==
    /\ \/ FreshStart
       \/ \E k \in 1..MaxMatches :
            \E f \in [1..k -> Names \X Names \X TeamOpt \X TeamOpt] :
                FilledStart(TeamFixtures(f), <<"A", "B">>)
    /\ FirstRun

SpecTeams == InitTeams /\ [][Next]_vars

\* As InitTeams, restricted to snapshots with unique teams and p1 # p2.
InitUnique ==
    /\ \/ FreshStart
       \/ \E k \in 1..MaxMatches :
            \E f \in [1..k -> Names \X Names \X TeamOpt \X TeamOpt] :
                /\ UniqueFixtures(TeamFixtures(f))
                /\ FilledStart(TeamFixtures(f), <<"A", "B">>)
    /\ FirstRun

SpecUnique == InitUnique /\ [][Next]_vars

---------------------------------------------------------------------------
(* Reference definitions for the standings claims *)

RECURSIVE SumOf(_, _)
SumOf(S, f) ==
    IF S = {} THEN 0
    ELSE LET x == CHOOSE y \in S : TRUE IN f[x] + SumOf(S \ {x}, f)

Listed(d) == {d.players[i] : i \in 1..Len(d.players)}

Participants(d) ==
    {d.matches[i].p1 : i \in 1..Len(d.matches)} \cup {d.matches[i].p2 : i \in 1..Len(d.matches)}

Played(d) ==
    {i \in 1..Len(d.matches) : d.matches[i].score1 # None /\ d.matches[i].score2 # None}

\* The sides <<match, 1 or 2>> a player occupies in played matches.
Sides(d, p) ==
    {<<i, 1>> : i \in {k \in Played(d) : d.matches[k].p1 = p}} \cup
    {<<i, 2>> : i \in {k \in Played(d) : d.matches[k].p2 = p}}

Own(d, sd) == IF sd[2] = 1 THEN d.matches[sd[1]].score1 ELSE d.matches[sd[1]].score2

Opp(d, sd) == IF sd[2] = 1 THEN d.matches[sd[1]].score2 ELSE d.matches[sd[1]].score1

\* The row the reference fold gives player p.
RefRow(d, p) ==
    LET S == Sides(d, p)
    IN  [Player |-> p,
         GP  |-> Cardinality(S),
         W   |-> Cardinality({sd \in S : Own(d, sd) > Opp(d, sd)}),
         D   |-> Cardinality({sd \in S : Own(d, sd) = Opp(d, sd)}),
         L   |-> Cardinality({sd \in S : Own(d, sd) < Opp(d, sd)}),
         GF  |-> SumOf(S, [sd \in S |-> Own(d, sd)]),
         GA  |-> SumOf(S, [sd \in S |-> Opp(d, sd)]),
         GD  |-> SumOf(S, [sd \in S |-> Own(d, sd) - Opp(d, sd)]),
         Pts |-> SumOf(S, [sd \in S |-> IF Own(d, sd) > Opp(d, sd) THEN 3
                                        ELSE IF Own(d, sd) = Opp(d, sd) THEN 1 ELSE 0])]

\* The standings tab 1 shows in the current state.
Standings == calculate_leaderboard(data)

RowPlayers(df) == {df[i].Player : i \in 1..Len(df)}

OneRowEach(df, d) ==
    /\ RowPlayers(df) = Listed(d)
    /\ Len(df) = Cardinality(Listed(d))

\* Position of the first appearance of p in the player list.
FirstPos(players, p) ==
    CHOOSE i \in 1..Len(players) :
        players[i] = p /\ \A j \in 1..(i - 1) : players[j] # p

SameKey(a, b) == a.Pts = b.Pts /\ a.GD = b.GD /\ a.GF = b.GF

\* (Pts, GD, GF) of a is lexicographically >= that of b.
LexGE(a, b) ==
    IF a.Pts # b.Pts THEN a.Pts > b.Pts
    ELSE IF a.GD # b.GD THEN a.GD > b.GD
    ELSE a.GF >= b.GF

---------------------------------------------------------------------------
(* Claims about calculate_leaderboard, checked under SpecStandings *)

\* C1: when every match participant is in the player list, the standings
\* hold exactly one row per listed player and each row equals the reference
\* fold over the played matches (appearances, goals for and against, goal
\* difference, wins, draws, losses, 3 points a win and 1 a draw).
C1_RowsEqualReferenceFold ==
    (~data.isNone /\ Participants(data) \subseteq Listed(data)) =>
        LET df == Standings
        IN  /\ OneRowEach(df, data)
            /\ \A i \in 1..Len(df) : df[i] = RefRow(data, df[i].Player)

\* A snapshot with every participant listed, one row with a win and a draw
\* and one row with a loss.
C1_Witness ==
    /\ ~data.isNone
    /\ Participants(data) \subseteq Listed(data)
    /\ LET df == Standings
       IN  /\ \E i \in 1..Len(df) : df[i].W >= 1 /\ df[i].D >= 1
           /\ \E i \in 1..Len(df) : df[i].L >= 1

SumColumnGF(df) == SumOf(1..Len(df), [i \in 1..Len(df) |-> df[i].GF])

SumColumnGA(df) == SumOf(1..Len(df), [i \in 1..Len(df) |-> df[i].GA])

AllPlayedListed(d) ==
    \A i \in Played(d) : d.matches[i].p1 \in Listed(d) /\ d.matches[i].p2 \in Listed(d)

C5_RankingOrderStable ==
    ~data.isNone =>
        LET df == Standings
        IN  \A i, j \in 1..Len(df) : i < j =>
                /\ LexGE(df[i], df[j])
                /\ SameKey(df[i], df[j]) =>
                      FirstPos(data.players, df[i].Player) < FirstPos(data.players, df[j].Player)

\* Two players tied on the whole triple after playing, listed B before A.
C5_Witness ==
    /\ ~data.isNone
    /\ LET df == Standings
       IN  /\ Len(df) = 2
           /\ SameKey(df[1], df[2])
           /\ df[1].GP > 0
           /\ df[1].Player = "B"

\* C8: matches with a missing score are inert: the standings of a snapshot
\* equal the standings of the same snapshot without its unplayed matches
\* (those with no score or with exactly one).
C8_UnplayedMatchesInert ==
    ~data.isNone =>
        Standings = calculate_leaderboard(
            [data EXCEPT !.matches = SelectSeq(data.matches,
                LAMBDA m : m.score1 # None /\ m.score2 # None)])

\* A played match next to a match that has only its first score.
C8_Witness ==
    /\ ~data.isNone
    /\ Played(data) # {}
    /\ \E i \in 1..Len(data.matches) :
          data.matches[i].score1 # None /\ data.matches[i].score2 = None

\* C9: every row has Pts = 3*W + D.
C9_PointsConsistent ==
    ~data.isNone =>
        LET df == Standings
        IN  \A i \in 1..Len(df) : df[i].Pts = 3 * df[i].W + df[i].D

\* A row with a win and a draw.
C9_Witness ==
    /\ ~data.isNone
    /\ LET df == Standings IN \E i \in 1..Len(df) : df[i].W = 1 /\ df[i].D = 1

---------------------------------------------------------------------------
(* Reference definitions for the team claims *)

\* The teams assigned to player p in the matches at the positions in idxs.
TeamsIn(d, idxs, p) ==
    {d.matches[j].team1 : j \in {k \in idxs : d.matches[k].p1 = p /\ d.matches[k].team1 # None}}
      \cup
    {d.matches[j].team2 : j \in {k \in idxs : d.matches[k].p2 = p /\ d.matches[k].team2 # None}}

AllMatches(d) == 1..Len(d.matches)

\* The teams assigned to p in all matches other than the one at position i.
OtherTeams(d, i, p) == TeamsIn(d, AllMatches(d) \ {i}, p)

\* The matches in which p is assigned team t.
MatchesWith(d, p, t) ==
    {j \in AllMatches(d) :
        \/ d.matches[j].p1 = p /\ d.matches[j].team1 = t
        \/ d.matches[j].p2 = p /\ d.matches[j].team2 = t}

\* No player has the same team assigned in two different matches.
TeamsUnique(d) ==
    \A p \in Participants(d) :
        \A t \in RosterSet \cup {OffRoster} : Cardinality(MatchesWith(d, p, t)) <= 1

Range(s) == {s[i] : i \in 1..Len(s)}

---------------------------------------------------------------------------
(* Claims about the score form and the save handler *)

\* C3: from a snapshot in which no player holds a team twice and p1 # p2 in
\* every match, every sequence of saves leaves a snapshot in which no player
\* holds the same team in two matches; and the options of a side that has no
\* team contain no team the player is assigned anywhere.  (SpecUnique)
C3_TeamUniquenessKept ==
    ~data.isNone =>
        /\ TeamsUnique(data)
        /\ \A i \in AllMatches(data) :
              LET m == data.matches[i]
              IN  /\ m.team1 = None =>
                        Range(opts_p1(data, m)) \cap TeamsIn(data, AllMatches(data), m.p1) = {}
                  /\ m.team2 = None =>
                        Range(opts_p2(data, m)) \cap TeamsIn(data, AllMatches(data), m.p2) = {}

\* After a save, one player holds teams in two matches while a side of
\* another player is still open.
C3_Witness ==
    /\ ~data.isNone
    /\ last.saved
    /\ Len(data.matches) = 2
    /\ data.matches[1].p1 = data.matches[2].p2
    /\ data.matches[1].team1 # None
    /\ data.matches[2].team2 # None
    /\ data.matches[2].team1 = None \/ data.matches[1].team2 = None

\* C6 (as claimed, on snapshots whose matches have p1 # p2): for every match
\* and side, the used set of the form (get_used_teams of the player without
\* the match's current team) is the set of teams assigned to that player in
\* all other matches, also when another match assigns the same team.
\* (SpecTeams)
C6_ExclusionEqualsOtherMatches ==
    (~data.isNone /\ \A i \in AllMatches(data) : data.matches[i].p1 # data.matches[i].p2) =>
        \A i \in AllMatches(data) :
            LET m == data.matches[i]
            IN  /\ used_p1(data, m) = OtherTeams(data, i, m.p1)
                /\ used_p2(data, m) = OtherTeams(data, i, m.p2)

\* C7 (as claimed, on snapshots whose matches have p1 # p2): on a side that
\* has a team, whatever its value, that team is one of the options and the
\* preselected one, and no other team the player holds in another match is an
\* option.  (SpecTeams)
C7_CurrentTeamOfferedAndPreselected ==
    (~data.isNone /\ \A i \in AllMatches(data) : data.matches[i].p1 # data.matches[i].p2) =>
        \A i \in AllMatches(data) :
            LET m == data.matches[i]
            IN  /\ m.team1 # None =>
                      /\ m.team1 \in Range(opts_p1(data, m))
                      /\ Preselected(opts_p1(data, m), m.team1) = m.team1
                      /\ Range(opts_p1(data, m)) \cap (OtherTeams(data, i, m.p1) \ {m.team1}) = {}
                /\ m.team2 # None =>
                      /\ m.team2 \in Range(opts_p2(data, m))
                      /\ Preselected(opts_p2(data, m), m.team2) = m.team2
                      /\ Range(opts_p2(data, m)) \cap (OtherTeams(data, i, m.p2) \ {m.team2}) = {}

\* A worksheet cell holds the value v of a record field.
CellHolds(cell, v) == IF v = None THEN cell = NaN ELSE cell = v

\* The worksheets hold exactly the snapshot d.
Persisted(sh, d) ==
    /\ sh.Players = d.players
    /\ Len(sh.Matches) = Len(d.matches)
    /\ \A j \in 1..Len(d.matches) :
          /\ sh.Matches[j].week = d.matches[j].week
          /\ sh.Matches[j].match_id = d.matches[j].match_id
          /\ sh.Matches[j].p1 = d.matches[j].p1
          /\ sh.Matches[j].p2 = d.matches[j].p2
          /\ CellHolds(sh.Matches[j].score1, d.matches[j].score1)
          /\ CellHolds(sh.Matches[j].score2, d.matches[j].score2)
          /\ CellHolds(sh.Matches[j].team1, d.matches[j].team1)
          /\ CellHolds(sh.Matches[j].team2, d.matches[j].team2)

\* Snapshot after is snapshot before with the four fields of the match
\* whose button was pressed set to the submitted values, nothing else.
EditedOnly(before, after, edit) ==
    /\ after.players = before.players
    /\ Len(after.matches) = Len(before.matches)
    /\ \A j \in 1..Len(before.matches) :
          IF before.matches[j].match_id = edit.match_id
          THEN /\ after.matches[j].week = before.matches[j].week
               /\ after.matches[j].match_id = before.matches[j].match_id
               /\ after.matches[j].p1 = before.matches[j].p1
               /\ after.matches[j].p2 = before.matches[j].p2
               /\ after.matches[j].score1 = edit.score1
               /\ after.matches[j].score2 = edit.score2
               /\ after.matches[j].team1 = edit.team1
               /\ after.matches[j].team2 = edit.team2
          ELSE after.matches[j] = before.matches[j]

\* C10: a save of match m sets m's score1, score2, team1 and team2 to the
\* submitted values and changes nothing else of the snapshot, and the
\* worksheets then hold that whole snapshot.  (SpecTeams)
C10_SaveFrame ==
    [][last'.saved => (EditedOnly(data, data', last') /\ Persisted(sheet', data'))]_vars

\* The second of two matches has just been saved next to a first match that
\* holds a team.
C10_Witness ==
    /\ ~data.isNone
    /\ last.saved
    /\ Len(data.matches) = 2
    /\ last.match_id = 2
    /\ data.matches[2].score1 = last.score1
    /\ data.matches[2].team1 = last.team1
    /\ data.matches[1].team1 # None
    /\ data.matches[1].score1 = None

====
